---- MODULE Spec2Model ----
(***************************************************************************)
(* Model of pine/training.py: the Backpropagation trainer (train) and the  *)
(* data-parallel driver (parallel_train, _parallel_train_worker).          *)
(*                                                                         *)
(* Numbers.  Python floats are modelled as fixed-point numbers: the        *)
(* integer v stands for the real v / Scale.  Sums and differences are      *)
(* exact; a product or a quotient is rounded to the nearest unit, the way  *)
(* a float operation rounds to the nearest representable value.            *)
(*                                                                         *)
(* Two specifications share the module:                                    *)
(*   SpecTrain  one call of Backpropagation.train, one step per neuron of  *)
(*              the backward pass;                                         *)
(*   SpecPar    one call of parallel_train, one step per process event,    *)
(*              train being one atomic step of the process that runs it.   *)
(***************************************************************************)
EXTENDS Integers, Sequences, FiniteSets, TLC

VARIABLES
    \* ---- arguments of the call and the trainer object
    network,              \* the caller's network: a sequence of layers
    training_examples,    \* sequence of <<target_output_vector, input_vector>>
    iterations,           \* the iterations argument
    unsupervised,         \* the unsupervised argument
    learning_rate,        \* trainer.learning_rate
    trainer_iterations,   \* trainer.iterations (-1: attribute not set yet)
    \* ---- Backpropagation.train, step by step
    pc,                   \* position in train
    iteration_counter,    \* loop variable of line 68
    example_index,        \* position of line 70 in training_examples (1-based)
    layer_index,          \* layer of line 84 being processed (1-based)
    j,                    \* neurons of the layer already processed (line 88)
    isOutputLayer,
    next_layer_deltas,
    next_layer_weights,   \* references to the weight lists of the next layer
    this_layer_deltas,
    this_layer_weights,
    rho_estimates,
    forward_network,      \* history: network as the forward pass left it
    rho_writers,          \* history: neurons that wrote each rho_estimates entry
    \* ---- parallel_train
    ppc,                  \* position of the coordinator in parallel_train
    requested,            \* num_processes as passed (cpu_count() when None)
    num_processes,
    chunk_amount,
    jobs,                 \* per spawned process: created/running/trained/exited/crashed
    job_network,          \* per spawned process: its private copy of network
    job_examples,         \* per process (coordinator last): its slice of examples
    results_queue,
    trained_networks,
    original,             \* history: network when parallel_train was called
    arrival,              \* history: process numbers in the order of their put
    own_trained           \* history: network after the coordinator's own train

trainVars == <<pc, iteration_counter, example_index, layer_index, j, isOutputLayer,
               next_layer_deltas, next_layer_weights, this_layer_deltas,
               this_layer_weights, rho_estimates, forward_network, rho_writers>>

parVars == <<ppc, requested, num_processes, chunk_amount, jobs, job_network,
             job_examples, results_queue, trained_networks, original, arrival,
             own_trained>>

callVars == <<training_examples, iterations, unsupervised, learning_rate>>

vars == <<network, trainer_iterations, callVars, trainVars, parVars>>

----------------------------------------------------------------------------
\* Bounds of the model

MaxIterations == 2
MaxExamples == 2
MaxParExamples == 3
MaxProcesses == 3

----------------------------------------------------------------------------
\* Fixed-point arithmetic

Scale == 1000

Min(a, b) == IF a < b THEN a ELSE b
Max(a, b) == IF a > b THEN a ELSE b

\* a / b for b > 0, rounded to the nearest integer
Round(a, b) == (2 * a + b) \div (2 * b)

Mul(a, b) == Round(a * b, Scale)
Div(a, b) == Round(a * Scale, b)

\* e^(k/4) for k = -24 .. 24, in units of 1/Scale
ExpTable == <<2, 3, 4, 5, 7, 9, 11, 14, 18, 24, 30, 39, 50, 64, 82, 105,
              135, 174, 223, 287, 368, 472, 607, 779, 1000,
              1284, 1649, 2117, 2718, 3490, 4482, 5755, 7389,
              9488, 12182, 15643, 20086, 25790, 33115, 42521,
              54598, 70105, 90017, 115584, 148413, 190566,
              244692, 314191, 403429>>

\* math.exp: the table, interpolated linearly, saturating outside [-6, 6]
Exp(x) ==
    LET c    == Max(-6 * Scale, Min(6 * Scale, x))
        off  == c + 6 * Scale
        k    == off \div (Scale \div 4)
        frac == off - k * (Scale \div 4)
        lo   == ExpTable[k + 1]
        hi   == ExpTable[Min(k + 2, Len(ExpTable))]
    IN  lo + Round((hi - lo) * frac, Scale \div 4)

----------------------------------------------------------------------------
\* Activation functions

ActivationNames == {"Logistic", "Tanh", "Linear"}

Activate(name, input_value) ==
    CASE name = "Logistic" -> Div(Scale, Scale + Exp(-input_value))
      [] name = "Tanh"     -> Div(Exp(input_value) - Exp(-input_value),
                                  Exp(input_value) + Exp(-input_value))
      [] OTHER             -> input_value

Derivative(name, fx) ==
    CASE name = "Logistic" -> Mul(fx, Scale - fx)
      [] name = "Tanh"     -> Mul(Scale - fx, Scale + fx)
      [] OTHER             -> Scale

----------------------------------------------------------------------------
\* The network collaborator (not part of training.py)

\* sum over ij of weights[ij] * inputs[ij]
RECURSIVE Dot(_, _, _)
Dot(weights, inputs, n) ==
    IF n = 0 THEN 0
    ELSE Dot(weights, inputs, n - 1) + Mul(weights[n], inputs[n])

ComputeNeuronOutput(name, neuron, inputs) ==
    [neuron EXCEPT
        !.inputs = inputs,
        !.local_output =
            Activate(name, Dot(neuron.weights, inputs, Len(inputs)) + neuron.threshold)]

ComputeLayerOutput(layer, inputs) ==
    [layer EXCEPT
        !.neurons = [n \in 1..Len(layer.neurons) |->
                        ComputeNeuronOutput(layer.activation_function,
                                            layer.neurons[n], inputs)]]

LayerOutputs(layer) == [n \in 1..Len(layer.neurons) |-> layer.neurons[n].local_output]

\* network.compute_network_output(input_vector), from layer l on
RECURSIVE ComputeFrom(_, _, _)
ComputeFrom(net, l, inputs) ==
    IF l > Len(net) THEN net
    ELSE LET layer == ComputeLayerOutput(net[l], inputs)
         IN  ComputeFrom([net EXCEPT ![l] = layer], l + 1, LayerOutputs(layer))

ComputeNetworkOutput(net, input_vector) == ComputeFrom(net, 1, input_vector)

\* initial weight of connection ij of neuron n of layer l, for a network seed
InitialWeight(seed, l, n, ij) == (((seed + 3 * l + 2 * n + 5 * ij) % 7) - 3) * (Scale \div 10)

MakeNeuron(seed, l, n, num_inputs) ==
    [weights      |-> [ij \in 1..num_inputs |-> InitialWeight(seed, l, n, ij)],
     threshold    |-> InitialWeight(seed, l, n, 0),
     local_output |-> 0,
     inputs       |-> [ij \in 1..num_inputs |-> 0]]

\* a network of the given layer widths over num_inputs inputs
MakeNetwork(seed, num_inputs, widths, name) ==
    [l \in 1..Len(widths) |->
        [activation_function |-> name,
         neurons |-> [n \in 1..widths[l] |->
                        MakeNeuron(seed, l, n,
                                   IF l = 1 THEN num_inputs ELSE widths[l - 1])]]]

----------------------------------------------------------------------------
\* Backpropagation.train: the backward pass of one neuron

\* sparsity parameter and the learning rate of the threshold correction
rho == Scale \div 20
beta == Scale \div 5

\* this_layer_weights.append(neuron.weights) stores the neuron's own list, not
\* a copy of it: an entry is a reference, read through the current network.
WeightsRef(l, n) == [layer |-> l, neuron |-> n]
Deref(net, ref) == net[ref.layer].neurons[ref.neuron].weights

\* sum_value after the first k pairs of zip(next_layer_deltas, next_layer_weights)
RECURSIVE SumValue(_, _, _, _, _)
SumValue(net, deltas, weights, n, k) ==
    IF k = 0 THEN 0
    ELSE SumValue(net, deltas, weights, n, k - 1)
         + Mul(Deref(net, weights[k])[n], deltas[k])

OutputDeltaAlwaysDerivative(name, neuron, target) ==
    Mul(neuron.local_output - target, Derivative(name, neuron.local_output))

OutputDelta(name, neuron, target) ==
    IF name = "Logistic"
    THEN neuron.local_output - target
    ELSE Mul(neuron.local_output - target, Derivative(name, neuron.local_output))

HiddenDelta(net, name, neuron, n, deltas, weights) ==
    Mul(Derivative(name, neuron.local_output),
        SumValue(net, deltas, weights, n, Min(Len(deltas), Len(weights))))

\* lines 125-147: gradient descent on every weight and on the threshold
UpdateParameters(neuron, delta, lr) ==
    [neuron EXCEPT
        !.weights = [ij \in 1..Len(neuron.weights) |->
                        IF ij <= Len(neuron.inputs)
                        THEN neuron.weights[ij] - Mul(lr, Mul(delta, neuron.inputs[ij]))
                        ELSE neuron.weights[ij]],
        !.threshold = neuron.threshold - Mul(lr, delta * 1)]

RhoEstimate(old, local_output) ==
    Mul((999 * Scale) \div 1000, old) + Mul(Scale \div 1000, local_output)

\* The body of the loop of line 88 for neuron n (1-based) of layer l.  b holds
\* what the body reads and writes: network, this_layer_deltas,
\* this_layer_weights, rho_estimates; error is set when rho_estimates[j]
\* raises IndexError (after the weights and the threshold were updated).
BackwardNeuron(b, l, n, target, deltas, weights, isOut, unsup, lr) ==
    LET name     == b.network[l].activation_function
        neuron   == b.network[l].neurons[n]
        delta    == IF isOut
                    THEN OutputDelta(name, neuron, target[n])
                    ELSE HiddenDelta(b.network, name, neuron, n, deltas, weights)
        updated  == UpdateParameters(neuron, delta, lr)
        sparse   == unsup /\ ~isOut
        inRange  == n <= Len(b.rho_estimates)
        estimate == RhoEstimate(b.rho_estimates[n], neuron.local_output)
        final    == IF sparse /\ inRange
                    THEN [updated EXCEPT
                            !.threshold = @ - Mul(Mul(lr, beta), estimate - rho)]
                    ELSE updated
    IN  [network            |-> [b.network EXCEPT ![l].neurons[n] = final],
         this_layer_deltas  |-> Append(b.this_layer_deltas, delta),
         this_layer_weights |-> Append(b.this_layer_weights, WeightsRef(l, n)),
         rho_estimates      |-> IF sparse /\ inRange
                                THEN [b.rho_estimates EXCEPT ![n] = estimate]
                                ELSE b.rho_estimates,
         error              |-> sparse /\ ~inRange]

\* rho_estimates = [0] * len(network.layers[0].neurons)
InitialRhoEstimates(net, unsup) ==
    IF unsup THEN [n \in 1..Len(net[1].neurons) |-> 0] ELSE <<>>

----------------------------------------------------------------------------
\* Backpropagation.train as one function (the run of a whole call)

\* neurons n.. of layer l
RECURSIVE BackwardLayer(_, _, _, _, _, _, _, _, _)
BackwardLayer(b, l, n, target, deltas, weights, isOut, unsup, lr) ==
    IF b.error \/ n > Len(b.network[l].neurons) THEN b
    ELSE BackwardLayer(BackwardNeuron(b, l, n, target, deltas, weights, isOut, unsup, lr),
                       l, n + 1, target, deltas, weights, isOut, unsup, lr)

\* layers l, l-1, .. 1; t holds network, rho_estimates, error
RECURSIVE BackwardFrom(_, _, _, _, _, _, _, _)
BackwardFrom(t, l, target, deltas, weights, isOut, unsup, lr) ==
    IF t.error \/ l = 0 THEN t
    ELSE LET b == BackwardLayer([network            |-> t.network,
                                 this_layer_deltas  |-> <<>>,
                                 this_layer_weights |-> <<>>,
                                 rho_estimates      |-> t.rho_estimates,
                                 error              |-> FALSE],
                                l, 1, target, deltas, weights, isOut, unsup, lr)
         IN  BackwardFrom([network       |-> b.network,
                           rho_estimates |-> b.rho_estimates,
                           error         |-> b.error],
                          l - 1, target, b.this_layer_deltas, b.this_layer_weights,
                          FALSE, unsup, lr)

TrainExample(t, example, unsup, lr) ==
    BackwardFrom([t EXCEPT !.network = ComputeNetworkOutput(t.network, example[2])],
                 Len(t.network), example[1], <<>>, <<>>, TRUE, unsup, lr)

\* examples e.. of one pass
RECURSIVE TrainPass(_, _, _, _, _)
TrainPass(t, examples, e, unsup, lr) ==
    IF t.error \/ e > Len(examples) THEN t
    ELSE TrainPass(TrainExample(t, examples[e], unsup, lr), examples, e + 1, unsup, lr)

RECURSIVE TrainPasses(_, _, _, _, _)
TrainPasses(t, examples, passes, unsup, lr) ==
    IF t.error \/ passes = 0 THEN t
    ELSE TrainPasses(TrainPass(t, examples, 1, unsup, lr), examples, passes - 1, unsup, lr)

\* trainer.train(net, examples, iters, unsup): the network it leaves
Train(net, examples, iters, unsup, lr) ==
    TrainPasses([network       |-> net,
                 rho_estimates |-> InitialRhoEstimates(net, unsup),
                 error         |-> FALSE],
                examples, iters, unsup, lr).network

----------------------------------------------------------------------------
\* Inputs of the model

LearningRate == Scale \div 2

\* layer widths, first layer of network.layers first, output layer last
Topologies == {<<1>>, <<2, 1>>, <<1, 2>>, <<1, 2, 1>>, <<2, 2, 1>>}

NumInputs == 2

\* the examples: <<target_output_vector, input_vector>>
ExamplePool(num_outputs) ==
    { <<[k \in 1..num_outputs |-> IF k = 1 THEN Scale ELSE 0], <<0, Scale>>>>,
      <<[k \in 1..num_outputs |-> 0], <<Scale, Scale>>>> }

SeqsUpTo(S, n) == UNION {[1..m -> S] : m \in 1..n}

NoJobs == [p \in {} |-> "created"]

ParIdle ==
    /\ ppc = "idle"
    /\ requested = 0
    /\ num_processes = 0
    /\ chunk_amount = 0
    /\ jobs = NoJobs
    /\ job_network = NoJobs
    /\ job_examples = NoJobs
    /\ results_queue = <<>>
    /\ trained_networks = <<>>
    /\ original = <<>>
    /\ arrival = <<>>
    /\ own_trained = <<>>

TrainIdle ==
    /\ iteration_counter = 0
    /\ example_index = 0
    /\ layer_index = 0
    /\ j = 0
    /\ isOutputLayer = FALSE
    /\ next_layer_deltas = <<>>
    /\ next_layer_weights = <<>>
    /\ this_layer_deltas = <<>>
    /\ this_layer_weights = <<>>
    /\ rho_estimates = <<>>
    /\ forward_network = <<>>
    /\ rho_writers = <<>>

----------------------------------------------------------------------------
\* Backpropagation.train, step by step

InitTrain ==
    /\ \E widths \in Topologies, name \in ActivationNames :
          /\ network = MakeNetwork(0, NumInputs, widths, name)
          /\ training_examples \in SeqsUpTo(ExamplePool(widths[Len(widths)]), MaxExamples)
    /\ iterations \in 1..MaxIterations
    /\ unsupervised \in BOOLEAN
    /\ learning_rate = LearningRate
    /\ trainer_iterations = -1
    /\ pc = "start"
    /\ TrainIdle
    /\ ParIdle

\* lines 50-68: the unsupervised set-up and the entry into the loops
TrainStart ==
    /\ pc = "start"
    /\ rho_estimates' = InitialRhoEstimates(network, unsupervised)
    /\ rho_writers' = [n \in 1..Len(rho_estimates') |-> {}]
    /\ iteration_counter' = 0
    /\ example_index' = 1
    /\ pc' = "example"
    /\ UNCHANGED <<network, trainer_iterations, callVars, parVars, layer_index, j,
                   isOutputLayer, next_layer_deltas, next_layer_weights,
                   this_layer_deltas, this_layer_weights, forward_network>>

\* lines 71-86: the forward pass of the example and the entry into the
\* backward pass at the output layer
ForwardPass ==
    /\ pc = "example"
    /\ network' = ComputeNetworkOutput(network, training_examples[example_index][2])
    /\ forward_network' = network'
    /\ next_layer_deltas' = <<>>
    /\ next_layer_weights' = <<>>
    /\ isOutputLayer' = TRUE
    /\ layer_index' = Len(network)
    /\ j' = 0
    /\ this_layer_deltas' = <<>>
    /\ this_layer_weights' = <<>>
    /\ pc' = "neuron"
    /\ UNCHANGED <<trainer_iterations, callVars, parVars, iteration_counter,
                   example_index, rho_estimates, rho_writers>>

\* lines 88-152: one neuron of the current layer
NeuronStep ==
    /\ pc = "neuron"
    /\ j < Len(network[layer_index].neurons)
    /\ LET b == BackwardNeuron([network            |-> network,
                                this_layer_deltas  |-> this_layer_deltas,
                                this_layer_weights |-> this_layer_weights,
                                rho_estimates      |-> rho_estimates,
                                error              |-> FALSE],
                               layer_index, j + 1, training_examples[example_index][1],
                               next_layer_deltas, next_layer_weights, isOutputLayer,
                               unsupervised, learning_rate)
       IN  /\ network' = b.network
           /\ this_layer_deltas' = b.this_layer_deltas
           /\ this_layer_weights' = b.this_layer_weights
           /\ rho_estimates' = b.rho_estimates
           /\ rho_writers' = IF unsupervised /\ ~isOutputLayer /\ ~b.error
                             THEN [rho_writers EXCEPT
                                     ![j + 1] = @ \cup {<<layer_index, j + 1>>}]
                             ELSE rho_writers
           /\ pc' = IF b.error THEN "IndexError" ELSE "neuron"
    /\ j' = j + 1
    /\ UNCHANGED <<trainer_iterations, callVars, parVars, iteration_counter,
                   example_index, layer_index, isOutputLayer, next_layer_deltas,
                   next_layer_weights, forward_network>>

\* lines 156-158 and 84-87: the layer is done, on to the one before it
LayerDone ==
    /\ pc = "neuron"
    /\ j = Len(network[layer_index].neurons)
    /\ layer_index > 1
    /\ next_layer_deltas' = this_layer_deltas
    /\ next_layer_weights' = this_layer_weights
    /\ isOutputLayer' = FALSE
    /\ layer_index' = layer_index - 1
    /\ this_layer_deltas' = <<>>
    /\ this_layer_weights' = <<>>
    /\ j' = 0
    /\ UNCHANGED <<network, trainer_iterations, callVars, parVars, pc,
                   iteration_counter, example_index, rho_estimates, forward_network,
                   rho_writers>>

\* lines 156-158 for the first layer, then line 70: the next example
ExampleDone ==
    /\ pc = "neuron"
    /\ j = Len(network[layer_index].neurons)
    /\ layer_index = 1
    /\ example_index < Len(training_examples)
    /\ next_layer_deltas' = this_layer_deltas
    /\ next_layer_weights' = this_layer_weights
    /\ isOutputLayer' = FALSE
    /\ example_index' = example_index + 1
    /\ pc' = "example"
    /\ UNCHANGED <<network, trainer_iterations, callVars, parVars, iteration_counter,
                   layer_index, j, this_layer_deltas, this_layer_weights,
                   rho_estimates, forward_network, rho_writers>>

\* line 68: the next pass over the examples
PassDone ==
    /\ pc = "neuron"
    /\ j = Len(network[layer_index].neurons)
    /\ layer_index = 1
    /\ example_index = Len(training_examples)
    /\ iteration_counter + 1 < iterations
    /\ next_layer_deltas' = this_layer_deltas
    /\ next_layer_weights' = this_layer_weights
    /\ isOutputLayer' = FALSE
    /\ iteration_counter' = iteration_counter + 1
    /\ example_index' = 1
    /\ pc' = "example"
    /\ UNCHANGED <<network, trainer_iterations, callVars, parVars, layer_index, j,
                   this_layer_deltas, this_layer_weights, rho_estimates,
                   forward_network, rho_writers>>

\* line 68: range(iterations) is exhausted; iteration_counter keeps its last value
LoopDone ==
    /\ pc = "neuron"
    /\ j = Len(network[layer_index].neurons)
    /\ layer_index = 1
    /\ example_index = Len(training_examples)
    /\ iteration_counter + 1 >= iterations
    /\ next_layer_deltas' = this_layer_deltas
    /\ next_layer_weights' = this_layer_weights
    /\ isOutputLayer' = FALSE
    /\ pc' = "return"
    /\ UNCHANGED <<network, trainer_iterations, callVars, parVars, iteration_counter,
                   example_index, layer_index, j, this_layer_deltas,
                   this_layer_weights, rho_estimates, forward_network, rho_writers>>

\* line 160
TrainReturn ==
    /\ pc = "return"
    /\ trainer_iterations' = iteration_counter
    /\ pc' = "done"
    /\ UNCHANGED <<network, callVars, parVars, iteration_counter, example_index,
                   layer_index, j, isOutputLayer, next_layer_deltas,
                   next_layer_weights, this_layer_deltas, this_layer_weights,
                   rho_estimates, forward_network, rho_writers>>

NextTrain ==
    \/ TrainStart
    \/ ForwardPass
    \/ NeuronStep
    \/ LayerDone
    \/ ExampleDone
    \/ PassDone
    \/ LoopDone
    \/ TrainReturn

SpecTrain == InitTrain /\ [][NextTrain]_vars

----------------------------------------------------------------------------
\* parallel_train

\* seq[a:b] of a sequence of length len, 0 <= a <= b: the positions it keeps,
\* as the half-open range start .. stop - 1 (0-based)
PySlice(len, a, b) == [start |-> Min(a, len), stop |-> Min(b, len)]

\* lines 323-325: the slice of spawned process p
JobSlice(len, p, chunk) == PySlice(len, p * chunk, (p * chunk) + chunk)

OwnSliceToEnd(len, n, chunk) == PySlice(len, (n - 1) * chunk, len)

\* lines 336-339: the slice of the coordinator
OwnSlice(len, n, chunk) == PySlice(len, (n - 1) * chunk, ((n - 1) * chunk) + chunk)

ExamplesOf(slice) == SubSeq(training_examples, slice.start + 1, slice.stop)

\* line 348: the number of results the coordinator takes from the queue
ResultsWantedOneLess(n) == n - 2

ResultsWanted(n) == n - 1

\* lines 359-361 and 364-366: the sum of one parameter over trained_networks
RECURSIVE ParameterSum(_, _, _, _, _)
ParameterSum(trained, l, n, ij, k) ==
    IF k = 0 THEN 0
    ELSE ParameterSum(trained, l, n, ij, k - 1)
         + (IF ij = 0
            THEN trained[k][l].neurons[n].threshold
            ELSE trained[k][l].neurons[n].weights[ij])

AverageWithoutOwn(own, sum, count) == Round(sum, count + 1)

\* lines 362 and 367: (own + sum) / (len(trained_networks) + 1)
Average(own, sum, count) == Round(own + sum, count + 1)

\* the first trained network stands in for every one of them
MergeNetworksFirstOnly(net, trained) ==
    [l \in 1..Len(net) |->
        [net[l] EXCEPT
            !.neurons = [n \in 1..Len(net[l].neurons) |->
                [net[l].neurons[n] EXCEPT
                    !.weights = [ij \in 1..Len(net[l].neurons[n].weights) |->
                        Average(net[l].neurons[n].weights[ij],
                                IF trained = <<>> THEN 0
                                ELSE Len(trained) * trained[1][l].neurons[n].weights[ij],
                                Len(trained))],
                    !.threshold =
                        Average(net[l].neurons[n].threshold,
                                IF trained = <<>> THEN 0
                                ELSE Len(trained) * trained[1][l].neurons[n].threshold,
                                Len(trained))]]]]

\* lines 355-367: the merge of trained_networks into the network
MergeNetworks(net, trained) ==
    [l \in 1..Len(net) |->
        [net[l] EXCEPT
            !.neurons = [n \in 1..Len(net[l].neurons) |->
                [net[l].neurons[n] EXCEPT
                    !.weights = [ij \in 1..Len(net[l].neurons[n].weights) |->
                        Average(net[l].neurons[n].weights[ij],
                                ParameterSum(trained, l, n, ij, Len(trained)),
                                Len(trained))],
                    !.threshold =
                        Average(net[l].neurons[n].threshold,
                                ParameterSum(trained, l, n, 0, Len(trained)),
                                Len(trained))]]]]

ParTopology == <<2, 1>>

InitPar ==
    /\ network = MakeNetwork(0, NumInputs, ParTopology, "Logistic")
    /\ training_examples \in
          SeqsUpTo(ExamplePool(ParTopology[Len(ParTopology)]), MaxParExamples)
    /\ iterations \in 1..MaxIterations
    /\ unsupervised \in BOOLEAN
    /\ learning_rate = LearningRate
    /\ trainer_iterations = -1
    /\ requested \in 1..MaxProcesses
    /\ ppc = "call"
    /\ num_processes = 0
    /\ chunk_amount = 0
    /\ jobs = NoJobs
    /\ job_network = NoJobs
    /\ job_examples = NoJobs
    /\ results_queue = <<>>
    /\ trained_networks = <<>>
    /\ original = network
    /\ arrival = <<>>
    /\ own_trained = <<>>
    /\ pc = "idle"
    /\ TrainIdle

Spawned == 0..(num_processes - 2)

\* lines 299-327: the number of processes, the queue, the chunks and the jobs
Setup ==
    /\ ppc = "call"
    /\ LET len == Len(training_examples)
           n   == IF requested > len THEN len ELSE requested
           c   == len \div n
       IN  /\ num_processes' = n
           /\ chunk_amount' = c
           /\ jobs' = [p \in 0..(n - 2) |-> "created"]
           /\ job_examples' = [p \in 0..(n - 2) |-> JobSlice(len, p, c)]
           /\ ppc' = IF n > 1 THEN "start" ELSE "own"
    /\ results_queue' = <<>>
    /\ UNCHANGED <<network, trainer_iterations, callVars, trainVars, requested,
                   job_network, trained_networks, original, arrival, own_trained>>

\* line 329: job.start() of the next job; the new process gets its own copy
\* of everything the coordinator holds at that moment
StartJob(p) ==
    /\ ppc = "start"
    /\ jobs[p] = "created"
    /\ \A q \in Spawned : q < p => jobs[q] # "created"
    /\ jobs' = [jobs EXCEPT ![p] = "running"]
    /\ job_network' = [q \in DOMAIN job_network \cup {p} |->
                          IF q = p THEN network ELSE job_network[q]]
    /\ ppc' = IF p = num_processes - 2 THEN "own" ELSE "start"
    /\ UNCHANGED <<network, trainer_iterations, callVars, trainVars, requested,
                   num_processes, chunk_amount, job_examples, results_queue,
                   trained_networks, original, arrival, own_trained>>

WorkerTrainShared(p) ==
    /\ jobs[p] = "running"
    /\ network' = Train(network, ExamplesOf(job_examples[p]), iterations,
                        unsupervised, learning_rate)
    /\ job_network' = [job_network EXCEPT ![p] = network']
    /\ jobs' = [jobs EXCEPT ![p] = "trained"]
    /\ UNCHANGED <<trainer_iterations, callVars, trainVars, ppc, requested,
                   num_processes, chunk_amount, job_examples, results_queue,
                   trained_networks, original, arrival, own_trained>>

\* line 381 in a spawned process: train on the process's copy
WorkerTrain(p) ==
    /\ jobs[p] = "running"
    /\ job_network' = [job_network EXCEPT
                          ![p] = Train(job_network[p], ExamplesOf(job_examples[p]),
                                       iterations, unsupervised, learning_rate)]
    /\ jobs' = [jobs EXCEPT ![p] = "trained"]
    /\ UNCHANGED <<network, trainer_iterations, callVars, trainVars, ppc, requested,
                   num_processes, chunk_amount, job_examples, results_queue,
                   trained_networks, original, arrival, own_trained>>

\* lines 382-385 in a spawned process: the put, then the process ends
WorkerPut(p) ==
    /\ jobs[p] = "trained"
    /\ results_queue' = Append(results_queue, job_network[p])
    /\ arrival' = Append(arrival, p)
    /\ jobs' = [jobs EXCEPT ![p] = "exited"]
    /\ UNCHANGED <<network, trainer_iterations, callVars, trainVars, ppc, requested,
                   num_processes, chunk_amount, job_network, job_examples,
                   trained_networks, original, own_trained>>

\* a crashed process whose result is put on the queue all the same
WorkerCrashButPut(p) ==
    /\ jobs[p] = "running"
    /\ results_queue' = Append(results_queue, job_network[p])
    /\ jobs' = [jobs EXCEPT ![p] = "crashed"]
    /\ UNCHANGED <<network, trainer_iterations, callVars, trainVars, ppc, requested,
                   num_processes, chunk_amount, job_network, job_examples,
                   trained_networks, original, arrival, own_trained>>

\* line 381 in a spawned process: train raises, or the process dies; nothing
\* catches it and line 385 is never reached
WorkerCrash(p) ==
    /\ jobs[p] = "running"
    /\ jobs' = [jobs EXCEPT ![p] = "crashed"]
    /\ UNCHANGED <<network, trainer_iterations, callVars, trainVars, ppc, requested,
                   num_processes, chunk_amount, job_network, job_examples,
                   results_queue, trained_networks, original, arrival, own_trained>>

\* lines 336-340: the coordinator's own chunk, trained by a direct call of
\* _parallel_train_worker on the network it was given
TrainOwn ==
    /\ ppc = "own"
    /\ LET slice == OwnSlice(Len(training_examples), num_processes, chunk_amount)
       IN  /\ job_examples' = [p \in 0..(num_processes - 1) |->
                                  IF p = num_processes - 1 THEN slice
                                  ELSE job_examples[p]]
           /\ network' = Train(network, ExamplesOf(slice), iterations, unsupervised,
                               learning_rate)
    /\ own_trained' = network'
    /\ trainer_iterations' = iterations - 1
    /\ ppc' = IF ResultsWanted(num_processes) <= 0 THEN "join" ELSE "collect"
    /\ UNCHANGED <<callVars, trainVars, requested, num_processes, chunk_amount, jobs,
                   job_network, results_queue, trained_networks, original, arrival>>

\* line 348: one results_queue.get(); it blocks while the queue is empty
GetResult ==
    /\ ppc = "collect"
    /\ results_queue # <<>>
    /\ trained_networks' = Append(trained_networks, Head(results_queue))
    /\ results_queue' = Tail(results_queue)
    /\ ppc' = IF Len(trained_networks') >= ResultsWanted(num_processes)
              THEN "join" ELSE "collect"
    /\ UNCHANGED <<network, trainer_iterations, callVars, trainVars, requested,
                   num_processes, chunk_amount, jobs, job_network, job_examples,
                   original, arrival, own_trained>>

\* line 351: every job.join() has returned
Join ==
    /\ ppc = "join"
    /\ \A p \in Spawned : jobs[p] \in {"exited", "crashed"}
    /\ ppc' = "merge"
    /\ UNCHANGED <<network, trainer_iterations, callVars, trainVars, requested,
                   num_processes, chunk_amount, jobs, job_network, job_examples,
                   results_queue, trained_networks, original, arrival, own_trained>>

\* lines 355-367
Merge ==
    /\ ppc = "merge"
    /\ network' = MergeNetworks(network, trained_networks)
    /\ ppc' = "done"
    /\ UNCHANGED <<trainer_iterations, callVars, trainVars, requested, num_processes,
                   chunk_amount, jobs, job_network, job_examples, results_queue,
                   trained_networks, original, arrival, own_trained>>

NextPar ==
    \/ Setup
    \/ \E p \in Spawned : StartJob(p)
    \/ \E p \in Spawned : WorkerTrain(p)
    \/ \E p \in Spawned : WorkerPut(p)
    \/ \E p \in Spawned : WorkerCrash(p)
    \/ TrainOwn
    \/ GetResult
    \/ Join
    \/ Merge

SpecPar == InitPar /\ [][NextPar]_vars

----------------------------------------------------------------------------
\* Properties of Backpropagation.train (SpecTrain)

TargetVector == training_examples[example_index][1]

\* C5: one step of train on an output-layer neuron sets every weight to
\* old_weight[ij] - learning_rate * d * inputs[ij] and the threshold to
\* old_threshold - learning_rate * d, where d is local_output - target[j] for
\* a Logistic layer and (local_output - target[j]) * derivative(local_output)
\* for any other layer.
C5_OutputNeuronUpdate ==
    [][(pc = "neuron" /\ isOutputLayer /\ j' = j + 1) =>
        LET name == network[layer_index].activation_function
            old  == network[layer_index].neurons[j + 1]
            new  == network'[layer_index].neurons[j + 1]
            diff == old.local_output - TargetVector[j + 1]
            d    == IF name = "Logistic"
                    THEN diff
                    ELSE Mul(diff, Derivative(name, old.local_output))
        IN  /\ \A ij \in 1..Len(old.weights) :
                  new.weights[ij] = old.weights[ij] - Mul(learning_rate, Mul(d, old.inputs[ij]))
            /\ new.threshold = old.threshold - Mul(learning_rate, d)]_vars

\* an output neuron of a Logistic layer was just updated with a non-zero
\* delta, on a non-zero input, where the derivative is not 1
C5_Witness ==
    /\ pc = "neuron"
    /\ isOutputLayer
    /\ j >= 1
    /\ network[layer_index].activation_function = "Logistic"
    /\ this_layer_deltas[j] # 0
    /\ \E ij \in 1..Len(network[layer_index].neurons[j].inputs) :
          /\ network[layer_index].neurons[j].inputs[ij] # 0
          /\ network[layer_index].neurons[j].weights[ij]
                # forward_network[layer_index].neurons[j].weights[ij]
    /\ Derivative("Logistic", network[layer_index].neurons[j].local_output) # Scale

\* C6: after train returns, trainer.iterations equals the iterations argument
C6_IterationsRecorded ==
    pc = "done" => trainer_iterations = iterations

\* C9: the delta of a hidden neuron is derivative(local_output) times the sum
\* over the next layer's neurons k of w_kj * delta_k, w_kj being the weight
\* the forward pass of this example used
C9_HiddenDeltaUsesForwardWeights ==
    (pc = "neuron" /\ ~isOutputLayer) =>
        \A n \in 1..Len(this_layer_deltas) :
            this_layer_deltas[n] =
                Mul(Derivative(network[layer_index].activation_function,
                               forward_network[layer_index].neurons[n].local_output),
                    SumValue(forward_network, next_layer_deltas, next_layer_weights,
                             n, Len(next_layer_deltas)))

\* C10: in an unsupervised call every index used on rho_estimates is in range
\* and no entry is updated by two distinct neurons
C10_RhoEstimatePerNeuron ==
    unsupervised =>
        /\ pc # "IndexError"
        /\ \A n \in 1..Len(rho_writers) : Cardinality(rho_writers[n]) <= 1

----------------------------------------------------------------------------
\* Properties of parallel_train (SpecPar)

Parameter(net, l, n, ij) ==
    IF ij = 0 THEN net[l].neurons[n].threshold ELSE net[l].neurons[n].weights[ij]

\* every (layer, neuron, index) of a parameter; index 0 is the threshold
ParameterPositions ==
    UNION {UNION {{<<l, n, ij>> : ij \in 0..Len(original[l].neurons[n].weights)} :
                    n \in 1..Len(original[l].neurons)} :
             l \in 1..Len(original)}

\* what train makes of the network parallel_train was called with, on the
\* chunk of process p (the coordinator is process num_processes - 1)
TrainedCopy(p) ==
    Train(original, ExamplesOf(job_examples[p]), iterations, unsupervised, learning_rate)

\* the trained copies of processes 0 .. p, in process order
RECURSIVE TrainedCopiesUpTo(_)
TrainedCopiesUpTo(p) ==
    IF p < 0 THEN <<>> ELSE Append(TrainedCopiesUpTo(p - 1), TrainedCopy(p))

TrainedCopies == TrainedCopiesUpTo(num_processes - 1)

\* the sum of one parameter over the first k of the copies
RECURSIVE SumOverCopies(_, _, _)
SumOverCopies(copies, pos, k) ==
    IF k = 0 THEN 0
    ELSE SumOverCopies(copies, pos, k - 1) + Parameter(copies[k], pos[1], pos[2], pos[3])

\* C1 as stated: after parallel_train every parameter is the mean of its
\* pre-training value and the trained copies of all num_processes workers
C1_MeanOfOriginalAndCopies ==
    ppc = "done" =>
        LET copies == TrainedCopies
        IN  \A pos \in ParameterPositions :
                Parameter(network, pos[1], pos[2], pos[3]) =
                    Round(Parameter(original, pos[1], pos[2], pos[3])
                            + SumOverCopies(copies, pos, num_processes),
                          num_processes + 1)

\* C1 amended: after parallel_train every parameter is the mean of the
\* num_processes trained networks (the coordinator's run trains the original
\* itself); the pre-training value is no term of the mean
C1_MeanOfTrainedNetworks ==
    ppc = "done" =>
        LET copies == TrainedCopies
        IN  \A pos \in ParameterPositions :
                Parameter(network, pos[1], pos[2], pos[3]) =
                    Round(SumOverCopies(copies, pos, num_processes), num_processes)

\* parallel_train returned after merging at least two trained networks that
\* differ from one another and from the pre-training network
C1_Witness ==
    /\ ppc = "done"
    /\ num_processes >= 2
    /\ \E pos \in ParameterPositions :
          /\ Parameter(trained_networks[1], pos[1], pos[2], pos[3])
                # Parameter(own_trained, pos[1], pos[2], pos[3])
          /\ Parameter(own_trained, pos[1], pos[2], pos[3])
                # Parameter(original, pos[1], pos[2], pos[3])
          /\ Parameter(network, pos[1], pos[2], pos[3])
                # Parameter(own_trained, pos[1], pos[2], pos[3])

\* C2 as stated: until the merge begins the network is as it was at the call
C2_OriginalUntouchedBeforeMerge ==
    ppc \in {"call", "start", "own", "collect", "join", "merge"} => network = original

\* C2 amended: no step of a spawned worker changes the network; it changes
\* only in the coordinator's own training run and in the merge
C2_OnlyCoordinatorWritesNetwork ==
    [][network' # network =>
          \/ ppc = "own" /\ ppc' # "own"
          \/ ppc = "merge" /\ ppc' = "done"]_vars

\* a spawned worker has trained its copy, which now differs from the network
\* the coordinator holds, still untouched
C2_Witness ==
    /\ ppc \in {"start", "own"}
    /\ \E p \in Spawned :
          /\ jobs[p] \in {"trained", "exited"}
          /\ \E pos \in ParameterPositions :
                Parameter(job_network[p], pos[1], pos[2], pos[3])
                    # Parameter(original, pos[1], pos[2], pos[3])
    /\ network = original

\* C3: when the merge starts, every spawned worker has trained and put its
\* network, the coordinator has taken all of them from the queue and its own
\* training run is over
C3_MergeAfterAllResults ==
    ppc \in {"merge", "done"} =>
        /\ \A p \in Spawned :
              /\ jobs[p] = "exited"
              /\ \E k \in 1..Len(arrival) : arrival[k] = p
        /\ Len(trained_networks) = num_processes - 1
        /\ own_trained # <<>>

\* the merge is about to start with the results of two spawned workers
C3_Witness ==
    /\ ppc = "merge"
    /\ num_processes = 3
    /\ Len(trained_networks) = 2

SliceIndices(slice) == slice.start .. (slice.stop - 1)

\* C4: n = min(requested, len) processes; process i gets the examples
\* [i*c, i*c + c), c = floor(len / n) >= 1; the chunks are disjoint and the
\* examples from n*c on are in no chunk
C4_Chunks ==
    ppc \in {"collect", "join", "merge", "done"} =>
        LET len == Len(training_examples)
            n   == Min(requested, len)
            c   == len \div n
        IN  /\ num_processes = n
            /\ c >= 1
            /\ DOMAIN job_examples = 0..(n - 1)
            /\ \A i \in 0..(n - 1) :
                  /\ SliceIndices(job_examples[i]) = (i * c)..(i * c + c - 1)
                  /\ Len(ExamplesOf(job_examples[i])) = c
            /\ \A i, k \in 0..(n - 1) :
                  i # k => SliceIndices(job_examples[i]) \cap SliceIndices(job_examples[k]) = {}
            /\ \A x \in (n * c)..(len - 1) :
                  \A i \in 0..(n - 1) : x \notin SliceIndices(job_examples[i])

\* the examples do not divide evenly: the last one is in no chunk
C4_Witness ==
    /\ ppc = "done"
    /\ num_processes >= 2
    /\ Len(training_examples) % num_processes # 0
    /\ \A i \in DOMAIN job_examples :
          (Len(training_examples) - 1) \notin SliceIndices(job_examples[i])

\* C7: the merged network is the merge of the coordinator's trained network
\* with the workers' trained networks taken in process order, whatever the
\* order in which they arrived
C7_MergeIndependentOfArrival ==
    ppc = "done" =>
        network = MergeNetworks(TrainedCopy(num_processes - 1),
                                [k \in 1..(num_processes - 1) |-> TrainedCopy(k - 1)])

\* two workers delivered different networks, the later process first
C7_Witness ==
    /\ ppc = "done"
    /\ Len(arrival) >= 2
    /\ arrival[1] > arrival[2]
    /\ \E pos \in ParameterPositions :
          Parameter(trained_networks[1], pos[1], pos[2], pos[3])
              # Parameter(trained_networks[2], pos[1], pos[2], pos[3])

====
